---------------------------- MODULE Spec2Model ----------------------------
(***************************************************************************)
(* Energy Insights API (src/main.py): the oil benchmark lookup endpoint,   *)
(* the synthetic price snapshot generator and the database probe.          *)
(*                                                                         *)
(* Strings are sequences of one-character strings.  Money is counted in    *)
(* hundredths (84.2 is 8420); a value before rounding is a numerator over  *)
(* the denominator RandRes.  random.Random is the library's seeded         *)
(* generator: its table mt is fixed but arbitrary, and the k-th output of  *)
(* a generator seeded with s is a function of mt, s and k alone.           *)
(***************************************************************************)
EXTENDS Integers, Sequences, FiniteSets, TLC

VARIABLES OIL_BENCHMARKS, mt, clock, pc, frame, rnd, response

vars == <<OIL_BENCHMARKS, mt, clock, pc, frame, rnd, response>>

-----------------------------------------------------------------------------
(* Bounds of the model *)

\* queries drawn exhaustively over QueryAlphabet have at most this length
MaxQueryLen == 2
\* random() returns k / RandRes for k in 0 .. RandRes - 1
RandRes == 3
\* the wall clock reads 0 .. MaxClock (minutes)
MaxClock == 1
\* list_collection_names returns at most this many names beyond the slice
ExtraCollections == 1
\* an exception message has at most this many characters beyond the slice
ExtraMsgLen == 1
\* worker threads of the server that handle requests at the same time
NumThreads == 2

-----------------------------------------------------------------------------
(* Python values *)

None == <<"None">>

\* str.strip() removes these from both ends
Whitespace == {" ", "\t", "\n", "\r"}

UpperCase == <<"A", "B", "C", "D", "E", "F", "G", "H", "I", "J", "K", "L", "M",
               "N", "O", "P", "Q", "R", "S", "T", "U", "V", "W", "X", "Y", "Z">>
LowerCase == <<"a", "b", "c", "d", "e", "f", "g", "h", "i", "j", "k", "l", "m",
               "n", "o", "p", "q", "r", "s", "t", "u", "v", "w", "x", "y", "z">>

IndexOf(c, alphabet) == CHOOSE k \in 1..Len(alphabet) : alphabet[k] = c

IsIn(c, alphabet) == \E k \in 1..Len(alphabet) : alphabet[k] = c

ToLower == [c \in {UpperCase[k] : k \in 1..Len(UpperCase)} |-> LowerCase[IndexOf(c, UpperCase)]]

ToUpper == [c \in {LowerCase[k] : k \in 1..Len(LowerCase)} |-> UpperCase[IndexOf(c, LowerCase)]]

LowerChar(c) == IF c \in DOMAIN ToLower THEN ToLower[c] ELSE c

UpperChar(c) == IF c \in DOMAIN ToUpper THEN ToUpper[c] ELSE c

\* str.lower()
Lower(s) == [k \in 1..Len(s) |-> LowerChar(s[k])]

\* str.upper()
Upper(s) == [k \in 1..Len(s) |-> UpperChar(s[k])]

\* str.strip()
Strip(s) ==
    LET keep == {k \in 1..Len(s) : s[k] \notin Whitespace}
    IN  IF keep = {} THEN <<>>
        ELSE LET lo == CHOOSE k \in keep : \A j \in keep : k <= j
                 hi == CHOOSE k \in keep : \A j \in keep : k >= j
             IN  SubSeq(s, lo, hi)

\* " ".join(parts)
RECURSIVE Join(_)
Join(parts) ==
    IF Len(parts) = 0 THEN <<>>
    ELSE IF Len(parts) = 1 THEN parts[1]
    ELSE parts[1] \o <<" ">> \o Join(Tail(parts))

\* term in text
Contains(text, term) ==
    \E k \in 0..(Len(text) - Len(term)) : SubSeq(text, k + 1, k + Len(term)) = term

\* q or ""
OrEmpty(q) == IF q = None \/ q = <<>> THEN <<>> ELSE q

\* collections[:n], str(e)[:n]
Take(s, n) == SubSeq(s, 1, IF Len(s) < n THEN Len(s) ELSE n)

\* max(a, b)
Max(a, b) == IF a >= b THEN a ELSE b

\* d[key], which raises KeyError when the key is missing
HasKey(d, key) == key \in DOMAIN d

-----------------------------------------------------------------------------
(* The catalog as written in the source; oid is the identity of the dict. *)

CatalogLiteral ==
    << [oid |-> 1,
        id |-> <<"b", "r", "e", "n", "t">>,
        name |-> <<"B", "r", "e", "n", "t", " ", "C", "r", "u", "d", "e">>,
        region |-> <<"N", "o", "r", "t", "h", " ", "S", "e", "a">>,
        unit |-> <<"U", "S", "D", "/", "b", "b", "l">>],
       [oid |-> 2,
        id |-> <<"w", "t", "i">>,
        name |-> <<"W", "T", "I", " ", "C", "r", "u", "d", "e">>,
        region |-> <<"U", "n", "i", "t", "e", "d", " ", "S", "t", "a", "t", "e", "s">>,
        unit |-> <<"U", "S", "D", "/", "b", "b", "l">>],
       [oid |-> 3,
        id |-> <<"o", "p", "e", "c">>,
        name |-> <<"O", "P", "E", "C", " ", "B", "a", "s", "k", "e", "t">>,
        region |-> <<"O", "P", "E", "C", " ", "M", "e", "m", "b", "e", "r", "s">>,
        unit |-> <<"U", "S", "D", "/", "b", "b", "l">>],
       [oid |-> 4,
        id |-> <<"u", "r", "a", "l", "s">>,
        name |-> <<"U", "r", "a", "l", "s">>,
        region |-> <<"R", "u", "s", "s", "i", "a">>,
        unit |-> <<"U", "S", "D", "/", "b", "b", "l">>],
       [oid |-> 5,
        id |-> <<"d", "u", "b", "a", "i">>,
        name |-> <<"D", "u", "b", "a", "i", "/", "O", "m", "a", "n">>,
        region |-> <<"M", "i", "d", "d", "l", "e", " ", "E", "a", "s", "t">>,
        unit |-> <<"U", "S", "D", "/", "b", "b", "l">>] >>


-----------------------------------------------------------------------------
(* Arithmetic of synth_price, in hundredths *)

\* the table `base` and the default of base.get
BaseTable ==
    [s \in {CatalogLiteral[k].id : k \in 1..Len(CatalogLiteral)} |->
        CASE s = <<"b", "r", "e", "n", "t">> -> 8420
          [] s = <<"w", "t", "i">>           -> 8010
          [] s = <<"o", "p", "e", "c">>      -> 8270
          [] s = <<"u", "r", "a", "l", "s">> -> 7190
          [] s = <<"d", "u", "b", "a", "i">> -> 7830]

DefaultBase == 7900

\* base.get(symbol, 0)
BaseGetZeroDefault(symbol) == IF symbol \in DOMAIN BaseTable THEN BaseTable[symbol] ELSE 0

\* base.get(symbol, 79.0)
BaseGet(symbol) == IF symbol \in DOMAIN BaseTable THEN BaseTable[symbol] ELSE DefaultBase

NoiseLow == -120
NoiseHigh == 120
ChangeLow == -200
ChangeHigh == 200
OffsetLow == 1
OffsetHigh == 45

\* round(x) to the nearest integer, ties to the even one, of x = num / den, den # 0
RoundHalfEven(num, den) ==
    LET n == IF den < 0 THEN -num ELSE num
        d == IF den < 0 THEN -den ELSE den
        q == n \div d
        r == n % d
    IN  IF 2 * r < d THEN q
        ELSE IF 2 * r > d THEN q + 1
        ELSE IF q % 2 = 0 THEN q ELSE q + 1

\* the guard 1e-6 in units of 1e-6, and the units of 1e-6 in a hundredth
Epsilon == 1
MicroPerCenti == 10000

\* the divisor with its operands swapped and no guard
DenominatorSwappedUnguarded(price, change) == (change - price) * MicroPerCenti

\* max(price - change, 1e-6), in units of 1e-6
Denominator(price, change) == Max((price - change) * MicroPerCenti, Epsilon)

\* round((change / denominator) * 100, 2), in hundredths of a percent
Percent(change, denominator) ==
    IF denominator % MicroPerCenti = 0
    THEN RoundHalfEven(change * MicroPerCenti, denominator \div MicroPerCenti)
    ELSE RoundHalfEven(change * MicroPerCenti * MicroPerCenti, denominator)

-----------------------------------------------------------------------------
(* random.Random *)

\* the three draws of one synth_price call: noise, change, minute offset
DrawsPerCall == 3

\* the stream of a generator repeats after Period outputs
Period == DrawsPerCall + 1

Tables == [1..Period -> 0..(RandRes - 1)]

CodeOf ==
    [c \in DOMAIN ToLower \cup DOMAIN ToUpper |->
        IF IsIn(c, LowerCase) THEN IndexOf(c, LowerCase)
        ELSE Len(LowerCase) + IndexOf(c, UpperCase)]

CharCode(c) == IF c \in DOMAIN CodeOf THEN CodeOf[c] ELSE 0

\* the generator's initial state is derived from the characters of the seed
RECURSIVE SeedHash(_)
SeedHash(seed) ==
    IF Len(seed) = 0 THEN 0 ELSE CharCode(Head(seed)) + 2 * SeedHash(Tail(seed))

\* a generator that goes on from where the last call left it
RandomKeepsPosition(old, seed) == [seed |-> seed, pos |-> old.pos]

\* random.Random(seed): a new instance; whatever the name rnd held is dropped
RandomNew(old, seed) == [seed |-> seed, pos |-> 0]

\* the next output of generator g, as k of k / RandRes
Word(g) == (mt[(g.pos % Period) + 1] + SeedHash(g.seed)) % RandRes

Advance(g) == [g EXCEPT !.pos = (g.pos + 1) % Period]

\* rnd.uniform(a, b) = a + (b - a) * random(), as a numerator over RandRes
Uniform(g, a, b) == a * RandRes + (b - a) * Word(g)

\* rnd.randint(a, b)
RandInt(g, a, b) == a + ((Word(g) * (b - a + 1)) \div RandRes)


-----------------------------------------------------------------------------
(* Workers, their frames and responses *)

Threads == 1..NumThreads

\* one Random object shared by all workers
SharedInstance(t) == 1

\* the Random object that worker t's synth_price call constructs and draws from
Instance(t) == t

NoGenerator == [seed |-> <<>>, pos |-> 0]

EmptyFrame ==
    [caller |-> "none", q |-> None, term |-> <<>>, i |-> 0, matches |-> <<>>,
     seed |-> <<>>, base_price |-> 0, raw |-> 0, price |-> 0, change |-> 0,
     denominator |-> Epsilon, percent |-> 0, minutes |-> 0, probe |-> None]

NoResponse == [status |-> "none", kind |-> "none", body |-> <<>>]

Raise(exception) == [status |-> "500", kind |-> "error", body |-> exception]

Ok(kind, body) == [status |-> "200", kind |-> kind, body |-> body]

Idle(t) == pc[t] \in {"idle", "done"}

InitWith(tables) ==
    /\ OIL_BENCHMARKS = CatalogLiteral
    /\ mt \in tables
    /\ clock = 0
    /\ pc = [t \in Threads |-> "idle"]
    /\ frame = [t \in Threads |-> EmptyFrame]
    /\ rnd = [t \in Threads |-> NoGenerator]
    /\ response = [t \in Threads |-> NoResponse]

-----------------------------------------------------------------------------
(* oil_lookup *)

\* str(q).strip().lower(), and q.strip() alone
NormalizeStr(q) == Lower(Strip(IF q = None THEN <<"N", "o", "n", "e">> ELSE q))

NormalizeNoLower(q) == Strip(OrEmpty(q))

\* (q or "").strip().lower()
Normalize(q) == Lower(Strip(OrEmpty(q)))

\* the request arrives; term = (q or "").strip().lower(); matches = []
StartLookup(t, q) ==
    /\ Idle(t)
    /\ pc' = [pc EXCEPT ![t] = "loop"]
    /\ frame' = [frame EXCEPT ![t] =
                    [EmptyFrame EXCEPT !.caller = "oil_lookup", !.q = q,
                                       !.term = Normalize(q), !.i = 1]]
    /\ response' = [response EXCEPT ![t] = NoResponse]
    /\ UNCHANGED <<OIL_BENCHMARKS, mt, clock, rnd>>

\* text = " ".join([item["id"], item["name"], item["region"]]).lower()
Blob(item) == Lower(Join(<<item.id, item.name, item.region>>))

\* a test that every item passes
MatchesAlways(term, text) == TRUE

\* term == "" or term in text
Matches(term, text) == term = <<>> \/ Contains(text, term)

\* one iteration of `for item in OIL_BENCHMARKS` up to the call of synth_price
LoopTest(t) ==
    /\ pc[t] = "loop"
    /\ LET f == frame[t] IN
       IF f.i > Len(OIL_BENCHMARKS)
       THEN /\ pc' = [pc EXCEPT ![t] = "return"]
            /\ UNCHANGED <<frame, response>>
       ELSE LET item == OIL_BENCHMARKS[f.i] IN
            IF ~(HasKey(item, "id") /\ HasKey(item, "name") /\ HasKey(item, "region")
                 /\ HasKey(item, "unit"))
            THEN /\ pc' = [pc EXCEPT ![t] = "done"]
                 /\ response' = [response EXCEPT ![t] = Raise("KeyError")]
                 /\ UNCHANGED frame
            ELSE IF Matches(f.term, Blob(item))
            THEN /\ pc' = [pc EXCEPT ![t] = "synth"]
                 /\ frame' = [frame EXCEPT ![t].seed = item.id]
                 /\ UNCHANGED response
            ELSE /\ pc' = [pc EXCEPT ![t] = "loop"]
                 /\ frame' = [frame EXCEPT ![t].i = f.i + 1]
                 /\ UNCHANGED response
    /\ UNCHANGED <<OIL_BENCHMARKS, mt, clock, rnd>>

\* item["snapshot"] = snap; matches.append(item): the catalog's own dict
AppendMatchAliased(catalog, matches, i, snap) ==
    LET item == [k \in DOMAIN catalog[i] \cup {"snapshot"} |->
                    IF k = "snapshot" THEN snap ELSE catalog[i][k]]
    IN  [catalog |-> [catalog EXCEPT ![i] = item], matches |-> Append(matches, item)]

\* matches.append({...}): a new dict with the item's four fields and the snapshot
AppendMatch(catalog, matches, i, snap) ==
    LET item == catalog[i]
        entry == [oid |-> Len(catalog) + Len(matches) + 1,
                  id |-> item.id, name |-> item.name, region |-> item.region,
                  unit |-> item.unit, snapshot |-> snap]
    IN  [catalog |-> catalog, matches |-> Append(matches, entry)]

\* a count of the catalog instead of the matches
LookupResultCountsCatalog(term, matches) ==
    [query |-> term, count |-> Len(OIL_BENCHMARKS), results |-> matches]

\* return {"query": term, "count": len(matches), "results": matches}
LookupResult(term, matches) ==
    [query |-> term, count |-> Len(matches), results |-> matches]

Return(t) ==
    /\ pc[t] = "return"
    /\ pc' = [pc EXCEPT ![t] = "done"]
    /\ response' = [response EXCEPT ![t] =
                       Ok("lookup", LookupResult(frame[t].term, frame[t].matches))]
    /\ UNCHANGED <<OIL_BENCHMARKS, mt, clock, frame, rnd>>

-----------------------------------------------------------------------------
(* synth_price *)

Seeds == {CatalogLiteral[k].id : k \in 1..Len(CatalogLiteral)}
            \cup {<<"g", "o", "l", "d">>, <<"B", "r", "e", "n", "t">>}

\* a direct call synth_price(seed)
StartSynth(t, seed) ==
    /\ Idle(t)
    /\ pc' = [pc EXCEPT ![t] = "synth"]
    /\ frame' = [frame EXCEPT ![t] =
                    [EmptyFrame EXCEPT !.caller = "synth_price", !.seed = seed]]
    /\ response' = [response EXCEPT ![t] = NoResponse]
    /\ UNCHANGED <<OIL_BENCHMARKS, mt, clock, rnd>>

\* rnd = random.Random(seed); base_price = base.get(symbol, 79.0)
SynthNew(t) ==
    /\ pc[t] = "synth"
    /\ rnd' = [rnd EXCEPT ![Instance(t)] = RandomNew(rnd[Instance(t)], frame[t].seed)]
    /\ frame' = [frame EXCEPT ![t].base_price = BaseGet(frame[t].seed)]
    /\ pc' = [pc EXCEPT ![t] = "noise"]
    /\ UNCHANGED <<OIL_BENCHMARKS, mt, clock, response>>

\* noise = rnd.uniform(-1.2, 1.2); price = round(base_price + noise, 2)
SynthNoise(t) ==
    /\ pc[t] = "noise"
    /\ LET g == rnd[Instance(t)]
           raw == frame[t].base_price * RandRes + Uniform(g, NoiseLow, NoiseHigh)
       IN  /\ frame' = [frame EXCEPT ![t].raw = raw,
                                     ![t].price = RoundHalfEven(raw, RandRes)]
           /\ rnd' = [rnd EXCEPT ![Instance(t)] = Advance(g)]
    /\ pc' = [pc EXCEPT ![t] = "change"]
    /\ UNCHANGED <<OIL_BENCHMARKS, mt, clock, response>>

\* change = round(rnd.uniform(-2.0, 2.0), 2);
\* percent = round((change / max(price - change, 1e-6)) * 100, 2),
\* where a zero divisor raises ZeroDivisionError
SynthChange(t) ==
    /\ pc[t] = "change"
    /\ LET g == rnd[Instance(t)]
           change == RoundHalfEven(Uniform(g, ChangeLow, ChangeHigh), RandRes)
           denominator == Denominator(frame[t].price, change)
       IN  /\ rnd' = [rnd EXCEPT ![Instance(t)] = Advance(g)]
           /\ IF denominator = 0
              THEN /\ pc' = [pc EXCEPT ![t] = "done"]
                   /\ frame' = [frame EXCEPT ![t].change = change,
                                             ![t].denominator = denominator]
                   /\ response' = [response EXCEPT ![t] = Raise("ZeroDivisionError")]
              ELSE /\ pc' = [pc EXCEPT ![t] = "offset"]
                   /\ frame' = [frame EXCEPT ![t].change = change,
                                             ![t].denominator = denominator,
                                             ![t].percent = Percent(change, denominator)]
                   /\ UNCHANGED response
    /\ UNCHANGED <<OIL_BENCHMARKS, mt, clock>>

\* the dict synth_price returns
Snapshot(f, now) ==
    [symbol |-> Upper(f.seed), price |-> f.price, change |-> f.change,
     percent_change |-> f.percent, currency |-> <<"U", "S", "D">>,
     unit |-> <<"b", "b", "l">>,
     updated_at |-> [minute |-> now - f.minutes, suffix |-> "Z"]]

\* now = datetime.utcnow(); updated_at = now - timedelta(minutes=rnd.randint(1, 45));
\* return {...}, and in oil_lookup matches.append({...})
SynthReturn(t) ==
    /\ pc[t] = "offset"
    /\ \E now \in clock..MaxClock :
         LET g == rnd[Instance(t)]
             f == [frame[t] EXCEPT !.minutes = RandInt(g, OffsetLow, OffsetHigh)]
             snap == Snapshot(f, now)
         IN  /\ clock' = now
             /\ rnd' = [rnd EXCEPT ![Instance(t)] = Advance(g)]
             /\ IF f.caller = "oil_lookup"
                THEN LET r == AppendMatch(OIL_BENCHMARKS, f.matches, f.i, snap) IN
                     /\ OIL_BENCHMARKS' = r.catalog
                     /\ frame' = [frame EXCEPT ![t] =
                                     [f EXCEPT !.matches = r.matches, !.i = f.i + 1]]
                     /\ pc' = [pc EXCEPT ![t] = "loop"]
                     /\ UNCHANGED response
                ELSE /\ frame' = [frame EXCEPT ![t] = f]
                     /\ pc' = [pc EXCEPT ![t] = "done"]
                     /\ response' = [response EXCEPT ![t] = Ok("snapshot", snap)]
                     /\ UNCHANGED OIL_BENCHMARKS
    /\ UNCHANGED mt


-----------------------------------------------------------------------------
(* test_database *)

CollectionLimit == 10
MsgLimit == 50

\* the exception classes involved and their base classes
BaseClass ==
    [c \in {"ModuleNotFoundError", "ImportError", "RuntimeError", "Exception"} |->
        CASE c = "ModuleNotFoundError" -> "ImportError"
          [] c = "ImportError"         -> "Exception"
          [] c = "RuntimeError"        -> "Exception"
          [] c = "Exception"           -> "BaseException"]

RECURSIVE IsInstance(_, _)
IsInstance(raised, class) ==
    \/ raised = class
    \/ raised \in DOMAIN BaseClass /\ IsInstance(BaseClass[raised], class)

\* the outer try without its last clause
OuterHandlersImportOnly == <<"ImportError">>

\* the except clauses of the outer try, in order, and of the inner try
OuterHandlers == <<"ImportError", "Exception">>

InnerHandlers == <<"Exception">>

\* the first clause that catches `raised`, 0 when none does
Handler(raised, handlers) ==
    IF \E k \in 1..Len(handlers) : IsInstance(raised, handlers[k])
    THEN CHOOSE k \in 1..Len(handlers) :
            /\ IsInstance(raised, handlers[k])
            /\ \A j \in 1..(k - 1) : ~IsInstance(raised, handlers[j])
    ELSE 0

Text(s) == [text |-> s, detail |-> <<>>]

Formatted(s, e) == [text |-> s, detail |-> Take(e, MsgLimit)]

InitialReport ==
    [backend |-> "Running", database |-> Text("Not Available"),
     database_url |-> None, database_name |-> None,
     connection_status |-> "Not Connected", collections |-> <<>>]

\* lines 133-147: the body of the outer try once the import has succeeded
ProbeBody(r, outcome, has_name, db_name, collections, msg) ==
    IF outcome = "db_none"
    THEN [r EXCEPT !.database = Text("Available but not initialized")]
    ELSE LET r1 == [r EXCEPT !.database = Text("Available"),
                             !.database_url = "Configured",
                             !.database_name = IF has_name THEN db_name ELSE "Connected",
                             !.connection_status = "Connected"]
         IN  IF outcome = "db_ok"
             THEN [r1 EXCEPT !.collections = Take(collections, CollectionLimit),
                             !.database = Text("Connected & Working")]
             ELSE IF Handler("RuntimeError", InnerHandlers) = 1
             THEN [r1 EXCEPT !.database = Formatted("Connected but Error", msg)]
             ELSE r1

\* lines 155-157: the environment variables are reported last
EnvReport(r, url_set, name_set) ==
    [r EXCEPT !.database_url = IF url_set THEN "Set" ELSE "Not Set",
              !.database_name = IF name_set THEN "Set" ELSE "Not Set"]

TestDatabase(t, outcome, has_name, collections, msg, url_set, name_set) ==
    /\ Idle(t)
    /\ pc' = [pc EXCEPT ![t] = "done"]
    /\ frame' = [frame EXCEPT ![t] =
                    [EmptyFrame EXCEPT !.caller = "test_database",
                        !.probe = [outcome |-> outcome, has_name |-> has_name,
                                   collections |-> collections, msg |-> msg,
                                   url_set |-> url_set, name_set |-> name_set]]]
    /\ LET r == InitialReport
           imported == outcome \in {"db_none", "db_ok", "db_list_raises"}
           h == IF imported THEN 0 ELSE Handler(outcome, OuterHandlers)
       IN  response' = [response EXCEPT ![t] =
             IF imported
             THEN Ok("report", EnvReport(
                      ProbeBody(r, outcome, has_name, <<"d", "b">>, collections, msg),
                      url_set, name_set))
             ELSE IF h = 0 THEN Raise(outcome)
             ELSE IF OuterHandlers[h] = "ImportError"
             THEN Ok("report", EnvReport(
                      [r EXCEPT !.database = Text("Database module not found")],
                      url_set, name_set))
             ELSE Ok("report", EnvReport(
                      [r EXCEPT !.database = Formatted("Error", msg)],
                      url_set, name_set))]
    /\ UNCHANGED <<OIL_BENCHMARKS, mt, clock, rnd>>

\* the lists and messages tried: empty, and around the length of the slice
Collections ==
    {[k \in 1..n |-> k] :
        n \in {0} \cup ((CollectionLimit - 1)..(CollectionLimit + ExtraCollections))}

Messages ==
    {[k \in 1..n |-> "x"] : n \in {0} \cup ((MsgLimit - 1)..(MsgLimit + ExtraMsgLen))}

\* the environment of one probe; what an outcome does not read is left out
ProbeInputs ==
    [outcome : {"ModuleNotFoundError", "ImportError", "db_none"}, has_name : {FALSE},
     collections : {<<>>}, msg : {<<>>}, url_set : BOOLEAN, name_set : BOOLEAN]
    \cup
    [outcome : {"RuntimeError"}, has_name : {FALSE},
     collections : {<<>>}, msg : Messages, url_set : BOOLEAN, name_set : BOOLEAN]
    \cup
    [outcome : {"db_ok"}, has_name : BOOLEAN,
     collections : Collections, msg : {<<>>}, url_set : BOOLEAN, name_set : BOOLEAN]
    \cup
    [outcome : {"db_list_raises"}, has_name : BOOLEAN,
     collections : {<<>>}, msg : Messages, url_set : BOOLEAN, name_set : BOOLEAN]

-----------------------------------------------------------------------------
(* The inputs of the requests *)

QueryAlphabet == {"e", "D", " ", "x"}

RECURSIVE StringsUpTo(_)
StringsUpTo(n) ==
    IF n = 0 THEN {<<>>}
    ELSE LET shorter == StringsUpTo(n - 1)
         IN  shorter \cup {Append(s, c) : s \in shorter, c \in QueryAlphabet}

SampleQueries ==
    { None,
      <<"c", "r", "u", "d", "e">>,
      <<"m", "i", "d", "d", "l", "e">>,
      <<"b", "r", "e", "n", "t">>,
      <<"B", "R", "E", "N", "T">>,
      <<" ", "B", "r", "e", "n", "t", "\t">>,
      <<"e", " ", "E">>,
      <<"n", "o", "n", "e", "x", "i", "s", "t", "e", "n", "t", "-", "x", "y", "z">> }

Queries == SampleQueries \cup StringsUpTo(MaxQueryLen)

ConcurrentQueries ==
    { <<"U", "R", "A", "L", "S">>, <<"w", "t", "i">> }

\* the tables of the generator with the same output at every position but one
FewTables == {tb \in Tables : \A k \in 2..Period : tb[k] = 0}

\* a table whose outputs differ from one position to the next
RampTable == [k \in 1..Period |-> (k - 1) % RandRes]

\* queries that differ in letter case and in surrounding whitespace only, and others
VariantQueries ==
    { <<>>, <<" ">>,
      <<"b", "r", "e", "n", "t">>, <<"B", "R", "E", "N", "T">>,
      <<" ", "B", "r", "e", "n", "t", "\t">>,
      <<"e", " ", "e">>, <<"\n", "E", " ", "e">>, <<"e", "e">> }

LookupOf(t, queries) == \E q \in queries : StartLookup(t, q)

Lookup(t) == LookupOf(t, Queries)

Synth(t) == \E seed \in Seeds : StartSynth(t, seed)

Probe(t) ==
    \E inp \in ProbeInputs :
        TestDatabase(t, inp.outcome, inp.has_name, inp.collections, inp.msg,
                     inp.url_set, inp.name_set)

Step(t) ==
    \/ LoopTest(t)
    \/ Return(t)
    \/ SynthNew(t)
    \/ SynthNoise(t)
    \/ SynthChange(t)
    \/ SynthReturn(t)

\* one worker: the requests are handled one after the other
Init == InitWith(FewTables)

Next == Lookup(1) \/ Synth(1) \/ Probe(1) \/ Step(1)

Spec == Init /\ [][Next]_vars

\* one worker, every table of the generator: the draws of synth_price
InitSynth == InitWith(Tables)

NextSynth == Synth(1) \/ LookupOf(1, ConcurrentQueries) \/ Step(1)

SpecSynth == InitSynth /\ [][NextSynth]_vars

\* two workers that take turns: a call and a later call, side by side
PairThreads == {1, 2}

InitPair == InitWith(FewTables)

NextPair ==
    \E t \in PairThreads :
        /\ \A u \in Threads \ {t} : Idle(u)
        /\ (LookupOf(t, VariantQueries) \/ Synth(t) \/ Step(t))

SpecPair == InitPair /\ [][NextPair]_vars

\* the workers handle lookup requests at the same time
InitConc == InitWith({RampTable})

NextConc == \E t \in Threads : LookupOf(t, ConcurrentQueries) \/ Step(t)

SpecConc == InitConc /\ [][NextConc]_vars

-----------------------------------------------------------------------------
(* What the claims speak of *)

KeyFields(e) == [id |-> e.id, name |-> e.name, region |-> e.region, unit |-> e.unit]

\* the query trimmed and lowercased, the absent query being the empty string
NormalForm(q) == IF q = None THEN <<>> ELSE Lower(Strip(q))

\* the lowercased, space-joined 'id name region' of a catalog entry
Searchable(e) == Lower(e.id \o <<" ">> \o e.name \o <<" ">> \o e.region)

Selected(q, e) == NormalForm(q) = <<>> \/ Contains(Searchable(e), NormalForm(q))

IdsOf(results) == [j \in 1..Len(results) |-> results[j].id]

CatalogIds == [k \in 1..Len(CatalogLiteral) |-> CatalogLiteral[k].id]

\* the position in the catalog of the entry with this id
CatalogIndex(id) == CHOOSE k \in 1..Len(CatalogLiteral) : CatalogLiteral[k].id = id

LookupDone(t) ==
    pc[t] = "done" /\ frame[t].caller = "oil_lookup" /\ response[t].kind = "lookup"

SynthDone(t) ==
    pc[t] = "done" /\ frame[t].caller = "synth_price" /\ response[t].kind = "snapshot"

Crude == <<"c", "r", "u", "d", "e">>
Middle == <<"m", "i", "d", "d", "l", "e">>
Nonexistent ==
    <<"n", "o", "n", "e", "x", "i", "s", "t", "e", "n", "t", "-", "x", "y", "z">>

\* C1: the results of a lookup are the catalog filtered in catalog order: an entry
\* appears, once, exactly when the normalized query is empty or a substring of its
\* lowercased 'id name region'; crude gives brent then wti, middle gives dubai, and
\* a query that matches nothing gives no entry.
C1_ResultsAreCatalogFilter ==
    \A t \in Threads :
        pc[t] = "done" /\ frame[t].caller = "oil_lookup" =>
            LET res == response[t].body.results
                q == frame[t].q
            IN  /\ response[t].status = "200"
                /\ \A k \in 1..Len(CatalogLiteral) :
                      Cardinality({j \in 1..Len(res) :
                                      KeyFields(res[j]) = KeyFields(CatalogLiteral[k])})
                        = IF Selected(q, CatalogLiteral[k]) THEN 1 ELSE 0
                /\ \A j \in 1..Len(res) :
                      \E k \in 1..Len(CatalogLiteral) :
                          KeyFields(res[j]) = KeyFields(CatalogLiteral[k])
                /\ \A i, j \in 1..Len(res) :
                      i < j => CatalogIndex(res[i].id) < CatalogIndex(res[j].id)
                /\ (q = Crude => IdsOf(res) = <<CatalogIds[1], CatalogIds[2]>>)
                /\ (q = Middle => IdsOf(res) = <<CatalogIds[5]>>)
                /\ (q = Nonexistent => res = <<>>)

C1_Witness ==
    \E t \in Threads :
        /\ LookupDone(t)
        /\ frame[t].q = Crude
        /\ Len(response[t].body.results) = 2

\* C2: the count of a lookup response is the number of elements of its results.
C2_CountIsLength ==
    \A t \in Threads :
        pc[t] = "done" /\ frame[t].caller = "oil_lookup" =>
            /\ response[t].kind = "lookup"
            /\ response[t].body.count = Len(response[t].body.results)

C2_Witness ==
    \E t \in Threads :
        /\ LookupDone(t)
        /\ frame[t].q = <<"e">>
        /\ response[t].body.count = 4

\* C3: the empty query and the absent query both return all 5 catalog entries,
\* with count 5 and query the empty string.
C3_EmptyAndAbsentReturnAll ==
    \A t \in Threads :
        pc[t] = "done" /\ frame[t].caller = "oil_lookup" /\ frame[t].q \in {None, <<>>} =>
            /\ response[t].kind = "lookup"
            /\ response[t].body.query = <<>>
            /\ response[t].body.count = 5
            /\ Len(response[t].body.results) = 5
            /\ \A k \in 1..5 :
                  KeyFields(response[t].body.results[k]) = KeyFields(CatalogLiteral[k])

C3_Witness ==
    \E t \in Threads :
        /\ LookupDone(t)
        /\ frame[t].q = None
        /\ response[t].body.count = 5

\* C9: a lookup never fails, and leaves the catalog as it was: the same 5 records
\* in the same order; the entries of the results are new records, none of them a
\* record of the catalog.
C9_LookupHasNoSideEffects ==
    /\ OIL_BENCHMARKS = CatalogLiteral
    /\ \A t \in Threads :
          frame[t].caller = "oil_lookup" =>
              /\ response[t].status # "500"
              /\ \A j \in 1..Len(frame[t].matches), k \in 1..Len(OIL_BENCHMARKS) :
                    frame[t].matches[j].oid # OIL_BENCHMARKS[k].oid
              /\ (pc[t] = "done" =>
                    /\ response[t].status = "200"
                    /\ \A j \in 1..Len(response[t].body.results),
                          k \in 1..Len(OIL_BENCHMARKS) :
                          response[t].body.results[j].oid # OIL_BENCHMARKS[k].oid)

C9_Witness ==
    \E t \in Threads :
        /\ LookupDone(t)
        /\ frame[t].q = Middle
        /\ Len(response[t].body.results) = 1
        /\ OIL_BENCHMARKS = CatalogLiteral

ReportKeys ==
    {"backend", "database", "database_url", "database_name", "connection_status",
     "collections"}

\* C10: the probe never raises and returns a report with the six keys in every
\* outcome of the import and connection attempt; a failure becomes a descriptive
\* string in the database field, and database_url and database_name report
\* whether the environment variables are set.
C10_ProbeAlwaysReports ==
    \A t \in Threads :
        pc[t] = "done" /\ frame[t].caller = "test_database" =>
            LET inp == frame[t].probe
                r == response[t].body
            IN  /\ response[t].status = "200"
                /\ response[t].kind = "report"
                /\ DOMAIN r = ReportKeys
                /\ r.database_url = (IF inp.url_set THEN "Set" ELSE "Not Set")
                /\ r.database_name = (IF inp.name_set THEN "Set" ELSE "Not Set")
                /\ (inp.outcome = "ModuleNotFoundError" =>
                        r.database.text = "Database module not found")
                /\ (inp.outcome = "ImportError" =>
                        r.database.text = "Database module not found")
                /\ (inp.outcome = "RuntimeError" =>
                        /\ r.database.text = "Error"
                        /\ r.database.detail = Take(inp.msg, 50))
                /\ (inp.outcome = "db_none" =>
                        r.database.text = "Available but not initialized")
                /\ (inp.outcome = "db_list_raises" =>
                        /\ r.database.text = "Connected but Error"
                        /\ r.database.detail = Take(inp.msg, 50)
                        /\ r.collections = <<>>)
                /\ (inp.outcome = "db_ok" =>
                        /\ r.database.text = "Connected & Working"
                        /\ r.collections = Take(inp.collections, 10))

C10_Witness ==
    \E t \in Threads :
        /\ pc[t] = "done"
        /\ frame[t].caller = "test_database"
        /\ frame[t].probe.outcome = "RuntimeError"
        /\ Len(frame[t].probe.msg) > 50
        /\ response[t].status = "200"
        /\ Len(response[t].body.database.detail) = 50

\* the seeded values of a snapshot: all of it but the time stamp
SeededValues(snap) ==
    [symbol |-> snap.symbol, price |-> snap.price, change |-> snap.change,
     percent_change |-> snap.percent_change, currency |-> snap.currency,
     unit |-> snap.unit]

\* two queries that differ in letter case and surrounding whitespace only
Variant(a, b) ==
    /\ a # None
    /\ b # None
    /\ Len(Strip(a)) = Len(Strip(b))
    /\ \A k \in 1..Len(Strip(a)) : LowerChar(Strip(a)[k]) = LowerChar(Strip(b)[k])

\* C4: matching ignores letter case and surrounding whitespace: two lookups whose
\* queries differ in these only return the same query, count and entries, and the
\* query returned is the trimmed, lowercased form.
C4_CaseAndSpaceInsensitive ==
    /\ \A t \in Threads :
          pc[t] = "done" /\ frame[t].caller = "oil_lookup" =>
              /\ response[t].kind = "lookup"
              /\ response[t].body.query = NormalForm(frame[t].q)
    /\ \A t, u \in Threads :
          /\ pc[t] = "done" /\ frame[t].caller = "oil_lookup"
          /\ pc[u] = "done" /\ frame[u].caller = "oil_lookup"
          /\ Variant(frame[t].q, frame[u].q)
          => LET a == response[t].body
                 b == response[u].body
             IN  /\ a.query = b.query
                 /\ a.count = b.count
                 /\ Len(a.results) = Len(b.results)
                 /\ \A j \in 1..Len(a.results) :
                       KeyFields(a.results[j]) = KeyFields(b.results[j])

C4_Witness ==
    \E t, u \in Threads :
        /\ LookupDone(t)
        /\ LookupDone(u)
        /\ frame[t].q = <<"B", "R", "E", "N", "T">>
        /\ frame[u].q = <<"b", "r", "e", "n", "t">>
        /\ Len(response[t].body.results) = 1
        /\ Len(response[u].body.results) = 1

\* C5: the values synth_price draws depend on the seed alone: whatever calls came
\* before, two calls with the same seed return the same symbol, price, change,
\* percent_change, currency and unit and draw the same minute offset; only the
\* time stamp can differ.
C5_SameSeedSameDraws ==
    \A t, u \in Threads :
        /\ (SynthDone(t) /\ SynthDone(u) /\ frame[t].seed = frame[u].seed =>
               /\ SeededValues(response[t].body) = SeededValues(response[u].body)
               /\ frame[t].minutes = frame[u].minutes)
        /\ (SynthDone(t) /\ LookupDone(u) =>
               \A j \in 1..Len(response[u].body.results) :
                   response[u].body.results[j].id = frame[t].seed =>
                       SeededValues(response[u].body.results[j].snapshot)
                           = SeededValues(response[t].body))

C5_Witness ==
    \E t, u \in Threads :
        /\ SynthDone(t)
        /\ SynthDone(u)
        /\ frame[t].seed = <<"g", "o", "l", "d">>
        /\ frame[u].seed = <<"g", "o", "l", "d">>
        /\ response[t].body.updated_at # response[u].body.updated_at
        /\ response[t].body.price = response[u].body.price

\* base(seed) in hundredths: the table value, and 79.0 for any other seed
ClaimedBase(seed) ==
    CASE seed = <<"b", "r", "e", "n", "t">> -> 8420
      [] seed = <<"w", "t", "i">>           -> 8010
      [] seed = <<"o", "p", "e", "c">>      -> 8270
      [] seed = <<"u", "r", "a", "l", "s">> -> 7190
      [] seed = <<"d", "u", "b", "a", "i">> -> 7830
      [] OTHER                              -> 7900

NoiseDrawn(t) == pc[t] \in {"change", "offset"} \/ SynthDone(t)

ChangeDrawn(t) == pc[t] = "offset" \/ SynthDone(t)

\* C6: in every snapshot the price before rounding is within 1.2 of base(seed)
\* and the change is within -2.0 .. 2.0.
C6_DrawsWithinBounds ==
    \A t \in Threads :
        /\ (NoiseDrawn(t) =>
               LET off == frame[t].raw - ClaimedBase(frame[t].seed) * RandRes
               IN  -120 * RandRes <= off /\ off <= 120 * RandRes)
        /\ (ChangeDrawn(t) => -200 <= frame[t].change /\ frame[t].change <= 200)
        /\ (SynthDone(t) =>
               /\ response[t].body.price - ClaimedBase(frame[t].seed) \in -120..120
               /\ response[t].body.change \in -200..200)
        /\ (LookupDone(t) =>
               \A j \in 1..Len(response[t].body.results) :
                   LET e == response[t].body.results[j]
                   IN  /\ e.snapshot.price - ClaimedBase(e.id) \in -120..120
                       /\ e.snapshot.change \in -200..200)

C6_Witness ==
    \E t \in Threads :
        /\ SynthDone(t)
        /\ frame[t].seed = <<"g", "o", "l", "d">>
        /\ frame[t].raw = (7900 - 120) * RandRes
        /\ frame[t].change > 0

\* C7: the divisor of percent_change, max(price - change, 1e-6), is strictly
\* positive for every seed and every pair of draws, and the division never fails.
C7_DivisorPositive ==
    \A t \in Threads :
        /\ response[t].status # "500"
        /\ (ChangeDrawn(t) =>
               /\ frame[t].denominator > 0
               /\ frame[t].denominator >= Epsilon)

C7_Witness ==
    \E t \in Threads :
        /\ pc[t] = "offset"
        /\ frame[t].seed = <<"u", "r", "a", "l", "s">>
        /\ frame[t].change < 0
        /\ frame[t].percent < 0
        /\ frame[t].denominator > 0

\* what synth_price(seed) returns when nothing else runs, but for the time stamp
AloneValues(seed) ==
    LET g0 == [seed |-> seed, pos |-> 0]
        price == RoundHalfEven(BaseGet(seed) * RandRes
                                   + Uniform(g0, NoiseLow, NoiseHigh), RandRes)
        g1 == Advance(g0)
        change == RoundHalfEven(Uniform(g1, ChangeLow, ChangeHigh), RandRes)
    IN  [symbol |-> Upper(seed), price |-> price, change |-> change,
         percent_change |-> Percent(change, Denominator(price, change)),
         currency |-> <<"U", "S", "D">>, unit |-> <<"b", "b", "l">>]

\* the entries oil_lookup(q) returns when nothing else runs, with their values
AloneResults(q) ==
    LET Test(e) == Matches(Normalize(q), Blob(e))
        alone == SelectSeq(CatalogLiteral, Test)
    IN  [j \in 1..Len(alone) |->
            [entry |-> KeyFields(alone[j]), values |-> AloneValues(alone[j].id)]]

\* C8: requests handled at the same time do not interact: under every interleaving
\* each lookup returns the query, count, entries and seeded snapshot values it
\* returns when it runs alone.
C8_ConcurrentAsAlone ==
    \A t \in Threads :
        pc[t] = "done" /\ frame[t].caller = "oil_lookup" =>
            LET r == response[t].body
            IN  /\ response[t].status = "200"
                /\ r.query = Normalize(frame[t].q)
                /\ [j \in 1..Len(r.results) |->
                       [entry |-> KeyFields(r.results[j]),
                        values |-> SeededValues(r.results[j].snapshot)]]
                     = AloneResults(frame[t].q)
                /\ r.count = Len(AloneResults(frame[t].q))

C8_Witness ==
    \E t, u \in Threads :
        /\ t # u
        /\ LookupDone(t)
        /\ Len(response[t].body.results) = 1
        /\ pc[u] = "offset"
        /\ rnd[t].seed # rnd[u].seed
        /\ rnd[t].pos = DrawsPerCall
        /\ rnd[u].pos = DrawsPerCall - 1

=============================================================================
